---- MODULE Spec2Model ----
(***************************************************************************)
(* Blood-pressure feature extraction of src/src/data/bp_features.py:       *)
(* peak detection and pairing (get_sys_bp, get_dias_bp), window            *)
(* aggregation (avg_bp), the lagged MAP feature (create_lookback) and the  *)
(* usability flag (clean_bp_summary).                                      *)
(*                                                                         *)
(* Floating-point numbers are modelled as exact fractions [num, den] with  *)
(* den >= 0: den = 0 stands for the IEEE special values (num = 0 is NaN,   *)
(* num = 1 is +inf, num = -1 is -inf).  Python sequences are 0-based; the  *)
(* TLA+ sequences below are 1-based, so position p of the code is element  *)
(* p + 1 here.                                                             *)
(***************************************************************************)
EXTENDS Integers, Sequences, FiniteSets, TLC

VARIABLES
    x_sub,       \* SpecPeaks: the one-column frame handed to get_sys_bp / get_dias_bp
    fn,          \* SpecPeaks: which function has been applied ("none" before the call)
    max_values,  \* SpecPeaks: the candidate list (local variable max_values) of the call
    ret,         \* SpecPeaks: the list the call returned
    raised,      \* the exception the last call raised, "none" when it returned
    df,          \* Spec: the waveform frame handed to avg_bp
    args,        \* Spec: the arguments of the calls made so far
    pc,          \* Spec: position in the pipeline avg_bp -> create_lookback -> clean_bp_summary
    new_df       \* Spec: the summary table (a sequence of rows, position = row index)

vars == <<x_sub, fn, max_values, ret, raised, df, args, pc, new_df>>

(***************************************************************************)
(* Floats                                                                  *)
(***************************************************************************)
NaN == [num |-> 0, den |-> 0]

IsNaN(a) == a.den = 0 /\ a.num = 0

Abs(n) == IF n < 0 THEN 0 - n ELSE n

Sign(n) == IF n < 0 THEN 0 - 1 ELSE IF n > 0 THEN 1 ELSE 0

RECURSIVE Gcd(_, _)
Gcd(a, b) == IF b = 0 THEN a ELSE Gcd(b, a % b)

\* the fraction n/d in lowest terms with a positive denominator; x/0 is
\* +inf or -inf by the sign of x, 0/0 is NaN
Frac(n, d) ==
    IF d = 0 THEN [num |-> Sign(n), den |-> 0]
    ELSE LET g == Gcd(Abs(n), Abs(d))
         IN  [num |-> Sign(d) * (n \div g), den |-> Abs(d) \div g]

F(n) == [num |-> n, den |-> 1]

\* a < b on floats: every comparison with NaN is false
FLess(a, b) == /\ ~IsNaN(a)
               /\ ~IsNaN(b)
               /\ a.num * b.den < b.num * a.den

\* a <= b on floats
FLeq(a, b) == /\ ~IsNaN(a)
              /\ ~IsNaN(b)
              /\ a.num * b.den <= b.num * a.den

\* a == b on floats
FEq(a, b) == /\ ~IsNaN(a)
             /\ ~IsNaN(b)
             /\ a.num * b.den = b.num * a.den
             /\ (a.den = 0) = (b.den = 0)

\* a + b; the operands of the code are finite or NaN
FAdd(a, b) == IF a.den = 0 \/ b.den = 0
              THEN (IF IsNaN(a) \/ IsNaN(b) \/ (a.den = 0 /\ b.den = 0 /\ a.num # b.num)
                    THEN NaN
                    ELSE IF a.den = 0 THEN a ELSE b)
              ELSE Frac(a.num * b.den + b.num * a.den, a.den * b.den)

\* k * a for an integer k > 0
FScale(k, a) == IF a.den = 0 THEN a ELSE Frac(k * a.num, a.den)

\* a / k for an integer k > 0
FDivInt(a, k) == IF a.den = 0 THEN a ELSE Frac(a.num, a.den * k)

\* 1 / v for the number v of a waveform sample: numpy divides without
\* raising, 1/0 is inf
Reciprocal(v) == Frac(1, v)

(***************************************************************************)
(* scipy.signal.find_peaks(x) with no conditions, i.e. _local_maxima_1d:   *)
(*     i = 1; i_max = len(x) - 1                                           *)
(*     while i < i_max:                                                    *)
(*         if x[i-1] < x[i]:                                               *)
(*             i_ahead = i + 1                                             *)
(*             while i_ahead < i_max and x[i_ahead] == x[i]: i_ahead += 1  *)
(*             if x[i_ahead] < x[i]:                                       *)
(*                 midpoints.append((i + i_ahead - 1) // 2); i = i_ahead   *)
(*         i += 1                                                          *)
(* i, i_ahead and i_max are the 0-based positions of that loop.  The jump  *)
(* i = i_ahead only skips positions that do not rise (x[i-1] < x[i] is     *)
(* false on them), so the peaks are the rising positions i in increasing   *)
(* order whose plateau ends in a fall.                                     *)
(***************************************************************************)
\* where the inner while loop started at i + 1 stops
PlateauEnd(x, i, i_max) ==
    CHOOSE j \in (i + 1)..i_max :
        /\ j = i_max \/ ~FEq(x[j + 1], x[i + 1])
        /\ \A k \in (i + 1)..(j - 1) : FEq(x[k + 1], x[i + 1])

RisesAndFalls(x, i, i_max) ==
    /\ FLess(x[i], x[i + 1])
    /\ FLess(x[PlateauEnd(x, i, i_max) + 1], x[i + 1])

\* mutant of find_peaks: a plateau yields its first sample, not its middle one
find_peaks_left_edge(x) ==
    LET i_max == Len(x) - 1
        is_peak(i) == RisesAndFalls(x, i, i_max)
    IN  SelectSeq([i \in 1..(i_max - 1) |-> i], is_peak)

find_peaks(x) ==
    LET i_max == Len(x) - 1
        is_peak(i) == RisesAndFalls(x, i, i_max)
        left_edges == SelectSeq([i \in 1..(i_max - 1) |-> i], is_peak)
    IN  [k \in 1..Len(left_edges) |->
            (left_edges[k] + (PlateauEnd(x, left_edges[k], i_max) - 1)) \div 2]

(***************************************************************************)
(* get_sys_bp and get_dias_bp.  A frame is [index, vals]: the labels of    *)
(* its rows and the values of its first column.  A peak is the tuple       *)
(* <<label, magnitude>>.                                                   *)
(***************************************************************************)
ZipPeaks(frame, peaks) ==
    [k \in 1..Len(peaks) |-> <<frame.index[peaks[k] + 1], frame.vals[peaks[k] + 1]>>]

sys_max_values(frame) ==
    ZipPeaks(frame, find_peaks([p \in 1..Len(frame.vals) |-> F(frame.vals[p])]))

dias_max_values(frame) ==
    ZipPeaks(frame, find_peaks([p \in 1..Len(frame.vals) |-> Reciprocal(frame.vals[p])]))

\* len(range(start, stop, step)) for step > 0
RangeLen(start, stop, step) ==
    IF stop > start THEN (stop - start + step - 1) \div step ELSE 0

\* the body of the pairing loop at position i (0-based): the larger of
\* max_values[i] and max_values[i+1], the first one unless it is smaller
only_sys_step(mv, i) ==
    IF mv[i + 1][2] < mv[i + 2][2] THEN mv[i + 2] ELSE mv[i + 1]

\* mutant of the pairing loop: the pairs overlap (i += 1)
only_sys_loop_overlap(mv) ==
    [k \in 1..RangeLen(0, Len(mv) - 1, 1) |-> only_sys_step(mv, k - 1)]

\* i = 0; while (i+1) < len(max_values): ...; i += 2
\* the loop runs for i = 0, 2, 4, ... below len(max_values) - 1 and appends
\* one peak each time
only_sys_loop(mv) ==
    [k \in 1..RangeLen(0, Len(mv) - 1, 2) |-> only_sys_step(mv, 2 * (k - 1))]

\* mutant of the loop body: the comparison is <= (a tie keeps the later one)
only_dias_step_leq(mv, i) ==
    IF mv[i + 1][2] <= mv[i + 2][2] THEN mv[i + 2] ELSE mv[i + 1]

only_dias_step(mv, i) ==
    IF mv[i + 1][2] < mv[i + 2][2] THEN mv[i + 2] ELSE mv[i + 1]

only_dias_loop(mv) ==
    [k \in 1..RangeLen(0, Len(mv) - 1, 2) |-> only_dias_step(mv, 2 * (k - 1))]

get_sys_bp(frame) == only_sys_loop(sys_max_values(frame))

get_dias_bp(frame) == only_dias_loop(dias_max_values(frame))

\* the label of the first row of a frame
IndexStarts == {0, 3}

NoFrame == [index |-> <<>>, vals |-> <<>>]

(***************************************************************************)
(* The waveform frame handed to avg_bp.  Its index is the increasing       *)
(* sample labels first..last without the labels of `missing`; column ABP   *)
(* alternates a diastolic value (even label) and a systolic value (odd     *)
(* label) of the beat kind in force at the sample's time; column ts is     *)
(* the sample's time, 8 ms per label (format_df), here in milliseconds     *)
(* since the record's base_datetime.                                       *)
(***************************************************************************)
ts(i) == i * 8

KindAt(d, i) ==
    LET sec == ts(i) \div 1000
    IN  IF d.ep_start <= sec /\ sec < d.ep_end THEN d.episode ELSE d.base

ABP(d, i) == IF i % 2 = 1 THEN KindAt(d, i).sys ELSE KindAt(d, i).dias

HasLabel(d, i) == d.first <= i /\ i <= d.last /\ i \notin d.missing

\* df.loc[lo:hi] restricted to the waveform column: a label slice keeps
\* the rows whose label lies in lo..hi, both ends included
LocSlice(d, lo, hi) ==
    LET present(l) == HasLabel(d, l)
        labels == SelectSeq([p \in 1..(hi - lo + 1) |-> lo + p - 1], present)
    IN  [index |-> labels, vals |-> [p \in 1..Len(labels) |-> ABP(d, labels[p])]]

(***************************************************************************)
(* avg_bp                                                                  *)
(***************************************************************************)
\* the sum of the magnitudes of peaks[lo..hi], by halves
RECURSIVE SumMagnitudes(_, _, _)
SumMagnitudes(peaks, lo, hi) ==
    IF lo > hi THEN 0
    ELSE IF lo = hi THEN peaks[lo][2]
    ELSE LET mid == (lo + hi) \div 2
         IN  SumMagnitudes(peaks, lo, mid) + SumMagnitudes(peaks, mid + 1, hi)

\* np.mean([x[1] for x in peaks]): NaN for the empty list
MeanMagnitude(peaks) == Frac(SumMagnitudes(peaks, 1, Len(peaks)), Len(peaks))

\* mutant of the MAP formula: systole weighted double
avg_maps_sys_double(avg_sys, avg_dias) ==
    FDivInt(FAdd(FScale(2, avg_sys), avg_dias), 3)

\* avg_maps = (avg_sys + 2 * (avg_dias))/3
avg_maps_of(avg_sys, avg_dias) ==
    FDivInt(FAdd(avg_sys, FScale(2, avg_dias)), 3)

\* the row of the window that ends at cur_window, or <<>> when the lookup
\* of a boundary timestamp raises KeyError and the window is skipped
cur_row(d, cur_window, time_chunk) ==
    LET frame == LocSlice(d, cur_window - time_chunk, cur_window)
        avg_sys == MeanMagnitude(get_sys_bp(frame))
        avg_dias == MeanMagnitude(get_dias_bp(frame))
    IN  IF HasLabel(d, cur_window - time_chunk) /\ HasLabel(d, cur_window)
        THEN <<[wave |-> d.wave,
                start_window |-> cur_window - time_chunk,
                start_window_time |-> ts(cur_window - time_chunk),
                end_window |-> cur_window,
                end_window_time |-> ts(cur_window),
                avg_sys |-> avg_sys,
                avg_dias |-> avg_dias,
                avg_map |-> avg_maps_of(avg_sys, avg_dias),
                all_values |-> frame.vals]>>
        ELSE <<>>

\* mutant of the window loop: the last position is included (<= end_window)
window_loop_inclusive(d, start, end_window, time_chunk, time_window) ==
    LET tried == [k \in 1..RangeLen(start, end_window + 1, time_window) |->
                     cur_row(d, start + (k - 1) * time_window, time_chunk)]
        appended(row) == row # <<>>
        kept == SelectSeq(tried, appended)
    IN  [r \in 1..Len(kept) |-> kept[r][1]]

\* for cur_window in range(start, end_window, time_window): the rows
\* appended to new_df, in the order of the loop (a skipped window appends
\* nothing)
window_loop(d, start, end_window, time_chunk, time_window) ==
    LET tried == [k \in 1..RangeLen(start, end_window, time_window) |->
                     cur_row(d, start + (k - 1) * time_window, time_chunk)]
        appended(row) == row # <<>>
        kept == SelectSeq(tried, appended)
    IN  [r \in 1..Len(kept) |-> kept[r][1]]

\* np.where(new_df['avg_map'] <= 65, 1, 0)
current_hypotensive_of(avg_map) == IF FLeq(avg_map, F(65)) THEN 1 ELSE 0

\* mutant of the label: shifted by 14 rows
shift_back_14(column) ==
    [r \in 1..Len(column) |-> IF r + 14 <= Len(column) THEN F(column[r + 14]) ELSE NaN]

\* Series.shift(periods=-15): row r takes the value of row r + 15, the last
\* 15 rows take NaN (and the column becomes a float column)
shift_back_15(column) ==
    [r \in 1..Len(column) |-> IF r + 15 <= Len(column) THEN F(column[r + 15]) ELSE NaN]

\* the table avg_bp returns for a frame and durations in seconds.  The
\* result of sort_values is discarded (it does not sort in place), so the
\* rows stay in the order they were appended; reset_index numbers them.
avg_bp(d, chunk_seconds, window_seconds) ==
    LET time_window == (window_seconds * 1000) \div 8
        time_chunk == (chunk_seconds * 1000) \div 8
        rows == window_loop(d, d.first + time_chunk, d.last, time_chunk, time_window)
        hyp == [r \in 1..Len(rows) |-> current_hypotensive_of(rows[r].avg_map)]
        in15 == shift_back_15(hyp)
    IN  [r \in 1..Len(rows) |->
            rows[r] @@ [current_hypotensive |-> hyp[r], hypotensive_in_15 |-> in15[r]]]

(***************************************************************************)
(* create_lookback                                                         *)
(***************************************************************************)
\* (row 1 start time - row 0 start time).seconds: the whole seconds of the
\* difference within a day; times are in milliseconds
time_diff_seconds(table) ==
    ((table[2].start_window_time - table[1].start_window_time) \div 1000) % 86400

\* mutant of the guard: a lookback equal to the spacing is rejected too
lookback_too_short_or_equal(seconds, time) == seconds >= 60 * time

\* time_diff > time, with time_diff = seconds / 60 minutes
lookback_too_short(seconds, time) == seconds > 60 * time

\* int(q) for the fraction q = n / d with d > 0: truncation toward zero
IntTrunc(n, d) == IF n >= 0 THEN n \div d ELSE 0 - ((0 - n) \div d)

\* lb_idx = int(index - n_skips) with n_skips = time / (seconds / 60)
lb_idx_of(index, seconds, time) == IntTrunc(index * seconds - 60 * time, seconds)

\* the name of the new column, f"lb_{time}_map"
lb_column(time) ==
    CASE time = 1 -> "lb_1_map"
      [] time = 2 -> "lb_2_map"
      [] time = 3 -> "lb_3_map"
      [] time = 4 -> "lb_4_map"
      [] OTHER -> "lb_n_map"

\* the value lb_array[index] of the loop over the rows; index is the
\* 0-based row label, min(df.index) is 0 after reset_index
lb_value(table, index, seconds, time) ==
    LET lb_idx == lb_idx_of(index, seconds, time)
    IN  IF lb_idx < 0 THEN NaN ELSE table[lb_idx + 1].avg_map

\* create_lookback(df, time): [raised, table]
create_lookback(table, time) ==
    IF Len(table) < 2
    THEN [raised |-> "IndexError", table |-> table]
    ELSE LET seconds == time_diff_seconds(table)
         IN  IF lookback_too_short(seconds, time)
             THEN [raised |-> "ValueError", table |-> table]
             ELSE IF seconds = 0
                  THEN [raised |-> "ZeroDivisionError", table |-> table]
                  ELSE [raised |-> "none",
                        table |-> [r \in 1..Len(table) |->
                                     table[r] @@ (lb_column(time) :>
                                                    lb_value(table, r - 1, seconds, time))]]

(***************************************************************************)
(* clean_bp_summary                                                        *)
(***************************************************************************)
\* mutant of the flag: the outcome need not be present
include_in_model_without_outcome(row) ==
    IF FLeq(F(30), row.avg_sys) /\ FLeq(F(10), row.avg_dias) THEN 1 ELSE 0

\* np.where(good_sys & good_dias & has_outcome, 1, 0) for one row
include_in_model_of(row) ==
    IF /\ FLeq(F(30), row.avg_sys)
       /\ FLeq(F(10), row.avg_dias)
       /\ ~IsNaN(row.hypotensive_in_15)
    THEN 1 ELSE 0

clean_bp_summary(table) ==
    [r \in 1..Len(table) |-> table[r] @@ [include_in_model |-> include_in_model_of(table[r])]]

(***************************************************************************)
(* Spec: one waveform frame through avg_bp, then create_lookback and       *)
(* clean_bp_summary on the summary table.                                  *)
(***************************************************************************)
\* the longest recording yields MaxRows windows of one second every minute
MaxRows == 17

Normal == [sys |-> 120, dias |-> 80]

\* mean arterial pressure exactly 65
Border == [sys |-> 75, dias |-> 60]

\* exactly at the plausibility floors
Floor == [sys |-> 30, dias |-> 10]

LowSys == [sys |-> 29, dias |-> 10]

LowDias == [sys |-> 30, dias |-> 9]

\* a constant signal: no peaks
Flat == [sys |-> 70, dias |-> 70]

BeatKinds == {Normal, Border, Floor, LowSys, LowDias, Flat}

\* short recordings: every pair of beat kinds, an early episode; lengths
\* in seconds
ShortSeconds == {1, 30, 200}

\* long recordings: enough windows for the 15-row label shift
LongSeconds == {60 * (MaxRows - 1) + 2}

LongKinds == {<<Normal, Border>>, <<Floor, LowSys>>, <<Floor, LowDias>>}

\* the seconds [from, to) in which the episode's beat kind replaces the
\* base kind: within the first windows, or at the last window
EarlyEpisode == <<1, 61>>

LongEpisodes == {EarlyEpisode, <<60 * (MaxRows - 1), 60 * (MaxRows - 1) + 40>>}

\* the rows that may be absent from the index, counted from the first
\* row: none, the start of the second window of a one-minute stride, or
\* the sample after it
GapSets == {{}, {7500}, {7501}}

WaveFrame(first, seconds, kinds, episode, gap) ==
    [wave |-> "a40001",
     first |-> first,
     last |-> first + seconds * 125,
     missing |-> {first + g : g \in {o \in gap : o < seconds * 125}},
     base |-> kinds[1],
     episode |-> kinds[2],
     ep_start |-> episode[1],
     ep_end |-> episode[2]]

InputFrames ==
    {WaveFrame(first, seconds, kinds, EarlyEpisode, gap) :
        first \in IndexStarts, seconds \in ShortSeconds,
        kinds \in BeatKinds \X BeatKinds, gap \in GapSets}
    \cup
    {WaveFrame(first, seconds, kinds, episode, gap) :
        first \in IndexStarts, seconds \in LongSeconds,
        kinds \in LongKinds, episode \in LongEpisodes, gap \in GapSets}

ChunkSeconds == {1, 2}

StepSeconds == {60, 90}

LookbackMinutes == {1, 2, 3}

Init ==
    /\ df \in InputFrames
    /\ args = [time_chunk |-> 0, time_window |-> 0, time |-> 0]
    /\ pc = "raw"
    /\ new_df = <<>>
    /\ raised = "none"
    /\ x_sub = NoFrame
    /\ fn = "none"
    /\ max_values = <<>>
    /\ ret = <<>>

\* avg_bp(df, time_chunk, time_window).  With no row appended the column
\* selection raises KeyError and avg_bp returns None ("no_summary").
AvgBp ==
    /\ pc = "raw"
    /\ \E chunk \in ChunkSeconds, step \in StepSeconds :
          /\ new_df' = avg_bp(df, chunk, step)
          /\ args' = [args EXCEPT !.time_chunk = chunk, !.time_window = step]
    /\ pc' = IF Len(new_df') = 0 THEN "no_summary" ELSE "summary"
    /\ raised' = "none"
    /\ UNCHANGED <<df, x_sub, fn, max_values, ret>>

CreateLookback ==
    /\ pc = "summary"
    /\ \E time \in LookbackMinutes :
          LET res == create_lookback(new_df, time)
          IN  /\ new_df' = res.table
              /\ raised' = res.raised
              /\ pc' = IF res.raised = "none" THEN "lookback" ELSE "failed"
              /\ args' = [args EXCEPT !.time = time]
    /\ UNCHANGED <<df, x_sub, fn, max_values, ret>>

CleanBpSummary ==
    /\ pc \in {"summary", "lookback"}
    /\ new_df' = clean_bp_summary(new_df)
    /\ pc' = "clean"
    /\ raised' = "none"
    /\ UNCHANGED <<df, args, x_sub, fn, max_values, ret>>

Next == AvgBp \/ CreateLookback \/ CleanBpSummary

Spec == Init /\ [][Next]_vars

(***************************************************************************)
(* SpecPeaks: get_sys_bp and get_dias_bp applied to every short series.    *)
(***************************************************************************)
MaxLen == 9

\* the sample values a series is drawn from: one alphabet of non-negative
\* values, one that holds a zero and a negative value
SeriesAlphabets == {{0, 1, 2}, {0 - 1, 0, 1}}

InitPeaks ==
    /\ \E n \in 0..MaxLen, alphabet \in SeriesAlphabets, first \in IndexStarts :
          \E v \in [1..n -> alphabet] :
             x_sub = [index |-> [p \in 1..n |-> first + p - 1], vals |-> v]
    /\ fn = "none"
    /\ max_values = <<>>
    /\ ret = <<>>
    /\ raised = "none"
    /\ df = NoFrame
    /\ args = <<>>
    /\ pc = "peaks"
    /\ new_df = <<>>

CallGetSysBp ==
    /\ fn = "none"
    /\ fn' = "get_sys_bp"
    /\ max_values' = sys_max_values(x_sub)
    /\ ret' = get_sys_bp(x_sub)
    /\ raised' = "none"
    /\ UNCHANGED <<x_sub, df, args, pc, new_df>>

CallGetDiasBp ==
    /\ fn = "none"
    /\ fn' = "get_dias_bp"
    /\ max_values' = dias_max_values(x_sub)
    /\ ret' = get_dias_bp(x_sub)
    /\ raised' = "none"
    /\ UNCHANGED <<x_sub, df, args, pc, new_df>>

NextPeaks == CallGetSysBp \/ CallGetDiasBp

SpecPeaks == InitPeaks /\ [][NextPeaks]_vars

(***************************************************************************)
(* Claims about get_sys_bp and get_dias_bp (SpecPeaks)                     *)
(***************************************************************************)
Called == fn # "none"

\* the two candidates of the k-th pair, c[2k-2] and c[2k-1] in the code's
\* 0-based numbering
PairFirst(k) == max_values[2 * k - 1]

PairSecond(k) == max_values[2 * k]

\* C3: the pairing step returns exactly floor(n/2) confirmed peaks from the
\* n candidates; the k-th confirmed peak is one of the two candidates of
\* the k-th non-overlapping pair and, when their magnitudes differ, the one
\* with the larger magnitude; an odd final candidate is dropped, fewer than
\* 2 candidates give an empty list without raising, and the confirmed
\* positions are strictly increasing.
C3_PairingKeepsLargerOfEachPair ==
    Called =>
       /\ Len(ret) = Len(max_values) \div 2
       /\ raised = "none"
       /\ (Len(max_values) < 2 => ret = <<>>)
       /\ \A k \in 1..Len(ret) :
             /\ ret[k] \in {PairFirst(k), PairSecond(k)}
             /\ PairFirst(k)[2] # PairSecond(k)[2] =>
                   /\ ret[k][2] >= PairFirst(k)[2]
                   /\ ret[k][2] >= PairSecond(k)[2]
       /\ \A k \in 1..(Len(ret) - 1) : ret[k][1] < ret[k + 1][1]

\* C3 witness: a call with an odd number (at least 3) of candidates whose
\* first pair differs in magnitude and keeps its second candidate
C3_Witness ==
    /\ Called
    /\ Len(max_values) >= 3
    /\ Len(max_values) % 2 = 1
    /\ PairFirst(1)[2] < PairSecond(1)[2]
    /\ ret[1] = PairSecond(1)

\* C4 (as stated): when the two candidates of a pair have equal magnitude,
\* the confirmed peak is the later candidate b.
C4_TieKeepsLater ==
    Called =>
       \A k \in 1..Len(ret) :
          PairFirst(k)[2] = PairSecond(k)[2] => ret[k] = PairSecond(k)

\* C4 (amended): when the two candidates of a pair have equal magnitude,
\* the confirmed peak is the earlier candidate a (the comparison a < b is
\* false on a tie, and the else branch appends a).
C4_TieKeepsEarlier ==
    Called =>
       \A k \in 1..Len(ret) :
          PairFirst(k)[2] = PairSecond(k)[2] => ret[k] = PairFirst(k)

\* C4 witness: a call of get_dias_bp whose second pair of candidates is a
\* tie and keeps the first candidate of the pair
C4_Witness ==
    /\ fn = "get_dias_bp"
    /\ Len(ret) >= 2
    /\ PairFirst(2)[2] = PairSecond(2)[2]
    /\ ret[2] = PairFirst(2)

\* positions (1-based) of the samples strictly greater than both
\* immediate neighbours
StrictLocalMaxima(v) ==
    {p \in 2..(Len(v) - 1) : v[p - 1] < v[p] /\ v[p] > v[p + 1]}

\* positions (1-based) of the middle sample (the left one of the two
\* middle samples of an even run) of every maximal run l..r of equal
\* samples that touches neither end of the series and whose two
\* neighbours are strictly lower
PlateauPeaks(v) ==
    {(l + r) \div 2 : <<l, r>> \in
        {lr \in (2..(Len(v) - 1)) \X (2..(Len(v) - 1)) :
            /\ lr[1] <= lr[2]
            /\ \A q \in lr[1]..lr[2] : v[q] = v[lr[1]]
            /\ v[lr[1] - 1] < v[lr[1]]
            /\ v[lr[2] + 1] < v[lr[1]]}}

CandidateSet == {max_values[k] : k \in 1..Len(max_values)}

\* C9 (as stated): the candidates get_sys_bp detects are exactly the
\* samples strictly greater than both immediate neighbours (so no sample
\* of a flat plateau is a candidate), each with its original label and
\* magnitude.
C9_CandidatesAreStrictLocalMaxima ==
    fn = "get_sys_bp" =>
       CandidateSet = {<<x_sub.index[p], x_sub.vals[p]>> : p \in StrictLocalMaxima(x_sub.vals)}

\* C9 (amended): the candidates get_sys_bp detects are, in increasing
\* position, exactly the samples strictly greater than both immediate
\* neighbours together with the middle sample of every flat plateau whose
\* two bounding neighbours are strictly lower; the first and last samples
\* are never candidates, and each candidate keeps its original label and
\* magnitude.
C9_CandidatesAreLocalMaximaOrPlateauMiddles ==
    fn = "get_sys_bp" =>
       /\ CandidateSet = {<<x_sub.index[p], x_sub.vals[p]>> : p \in PlateauPeaks(x_sub.vals)}
       /\ StrictLocalMaxima(x_sub.vals) \subseteq PlateauPeaks(x_sub.vals)
       /\ \A k \in 1..(Len(max_values) - 1) : max_values[k][1] < max_values[k + 1][1]
       /\ \A k \in 1..Len(max_values) :
             /\ max_values[k][1] # x_sub.index[1]
             /\ max_values[k][1] # x_sub.index[Len(x_sub.index)]

\* C9 witness: a series whose first label is not 0 and which holds a flat
\* plateau of three samples that yields a candidate, and a strict peak
C9_Witness ==
    /\ fn = "get_sys_bp"
    /\ Len(x_sub.index) > 0
    /\ x_sub.index[1] # 0
    /\ StrictLocalMaxima(x_sub.vals) # {}
    /\ \E p \in 2..(Len(x_sub.vals) - 3) :
          /\ x_sub.vals[p] = x_sub.vals[p + 1]
          /\ x_sub.vals[p] = x_sub.vals[p + 2]
          /\ <<x_sub.index[p + 1], x_sub.vals[p + 1]>> \in CandidateSet

\* C10 (as stated): get_dias_bp on a series that holds a zero or negative
\* value fails with an explicit DomainError.
C10_DiasRejectsNonPositive ==
    (/\ fn = "get_dias_bp"
     /\ \E p \in 1..Len(x_sub.vals) : x_sub.vals[p] <= 0)
       => raised = "DomainError"

(***************************************************************************)
(* Claims about avg_bp, create_lookback and clean_bp_summary (Spec)        *)
(***************************************************************************)
\* avg_bp has returned a table and it is still the current one
Returned == pc = "summary"

HasTable == pc \in {"summary", "lookback", "failed", "clean"}

NRows == Len(new_df)

\* C1: in the table avg_bp returns, with N rows, hypotensive_in_15 of row i
\* equals current_hypotensive of row i+15 for every i <= N-16 (0-based) and
\* is missing for each of the last 15 rows (all rows when N <= 15).
C1_LabelIsFlagFifteenRowsAhead ==
    HasTable =>
       \A r \in 1..NRows :
          IF r + 15 <= NRows
          THEN new_df[r].hypotensive_in_15 = F(new_df[r + 15].current_hypotensive)
          ELSE IsNaN(new_df[r].hypotensive_in_15)

\* C1 witness: a returned table of 17 rows whose last row alone is
\* hypotensive, so that row 1 (0-based) carries the label 1 and row 0 the
\* label 0
C1_Witness ==
    /\ Returned
    /\ NRows = 17
    /\ new_df[17].current_hypotensive = 1
    /\ new_df[16].current_hypotensive = 0
    /\ new_df[2].hypotensive_in_15 = F(1)
    /\ new_df[1].hypotensive_in_15 = F(0)

chunk_samples == (args.time_chunk * 1000) \div 8

step_samples == (args.time_window * 1000) \div 8

\* the k (k = 0, 1, 2, ...) whose window end first + chunk_samples +
\* k * step_samples lies below the last index
WindowNumbers ==
    {k \in 0..((df.last - df.first) \div step_samples) :
        df.first + chunk_samples + k * step_samples < df.last}

WindowEnd(k) == df.first + chunk_samples + k * step_samples

\* the windows whose two boundary samples are rows of the frame
PresentWindowNumbers ==
    {k \in WindowNumbers :
        HasLabel(df, WindowEnd(k) - chunk_samples) /\ HasLabel(df, WindowEnd(k))}

\* row r (1-based) is well formed and its all_values are the samples of
\* the frame with labels start_window..end_window, in order
RowCoversItsWindow(r) ==
    LET row == new_df[r]
        gone(l) == Cardinality({m \in df.missing : row.start_window <= m /\ m <= l})
    IN  /\ row.start_window < row.end_window
        /\ row.end_window - row.start_window = chunk_samples
        /\ Len(row.all_values) =
              chunk_samples + 1 - gone(row.end_window)
        /\ \A l \in row.start_window..row.end_window :
              HasLabel(df, l) =>
                 row.all_values[l - row.start_window + 1 - gone(l)] = ABP(df, l)

\* C2 (as stated): the rows of the returned table, in table order, are the
\* windows with end_window = first_index + chunk_samples + k*step_samples
\* (k = 0,1,2,...) and end_window < last_index, in strictly increasing
\* start_window order; every row has start_window < end_window,
\* end_window - start_window = chunk_samples, and its sub-series covers the
\* samples start_window..end_window inclusive.
C2_RowsAreAllWindows ==
    Returned =>
       /\ NRows = Cardinality(WindowNumbers)
       /\ \A r \in 1..NRows :
             /\ new_df[r].end_window = WindowEnd(r - 1)
             /\ new_df[r].start_window = WindowEnd(r - 1) - chunk_samples
             /\ Len(new_df[r].all_values) = chunk_samples + 1
             /\ RowCoversItsWindow(r)

\* C2 (amended): the rows of the returned table, in table order, are those
\* of the windows with end_window = first_index + chunk_samples +
\* k*step_samples (k = 0,1,2,...) and end_window < last_index whose start
\* and end positions are both rows of the frame, in strictly increasing
\* start_window order; every row has start_window < end_window,
\* end_window - start_window = chunk_samples, and its sub-series holds the
\* samples of the frame at the positions start_window..end_window inclusive.
C2_RowsAreThePresentWindows ==
    Returned =>
       /\ NRows = Cardinality(PresentWindowNumbers)
       /\ \A r \in 1..NRows :
             /\ \E k \in PresentWindowNumbers :
                   /\ new_df[r].end_window = WindowEnd(k)
                   /\ Cardinality({j \in PresentWindowNumbers : j < k}) = r - 1
             /\ RowCoversItsWindow(r)
       /\ \A r \in 1..(NRows - 1) : new_df[r].start_window < new_df[r + 1].start_window

\* C2 witness: a returned table from a frame whose first label is not 0,
\* where the window that would end exactly at the last index is left out,
\* one window was skipped for a missing boundary sample, and 15 rows remain
C2_Witness ==
    /\ Returned
    /\ df.first # 0
    /\ \E k \in 0..MaxRows : WindowEnd(k) = df.last
    /\ Cardinality(PresentWindowNumbers) < Cardinality(WindowNumbers)
    /\ NRows >= 15

\* C7: for every row of the table avg_bp returns, avg_map equals
\* (avg_sys + 2*avg_dias)/3 where avg_sys and avg_dias are the means of the
\* window's confirmed systolic and diastolic peak magnitudes, and
\* current_hypotensive is 1 exactly when avg_map <= 65 and 0 otherwise (also
\* for a window with no confirmed peaks, whose avg_map is missing).
C7_AvgMapAndHypotensiveFlag ==
    Returned =>
       \A r \in 1..NRows :
          LET row == new_df[r]
              frame == [index |-> [p \in 1..Len(row.all_values) |-> p],
                        vals |-> row.all_values]
              sys == get_sys_bp(frame)
              dias == get_dias_bp(frame)
              s == row.avg_sys
              d == row.avg_dias
              m == row.avg_map
          IN  /\ IF Len(sys) = 0 THEN IsNaN(s)
                 ELSE s.den > 0 /\ s.num * Len(sys) = SumMagnitudes(sys, 1, Len(sys)) * s.den
              /\ IF Len(dias) = 0 THEN IsNaN(d)
                 ELSE d.den > 0 /\ d.num * Len(dias) = SumMagnitudes(dias, 1, Len(dias)) * d.den
              /\ IF IsNaN(s) \/ IsNaN(d) THEN IsNaN(m)
                 ELSE m = Frac(s.num * d.den + 2 * d.num * s.den, 3 * s.den * d.den)
              /\ row.current_hypotensive \in {0, 1}
              /\ row.current_hypotensive = 1 <=> (m.den > 0 /\ m.num <= 65 * m.den)

\* C7 witness: a returned table with a row whose avg_map is exactly 65
\* (flag 1) and a row with no confirmed peaks (avg_map missing, flag 0)
C7_Witness ==
    /\ Returned
    /\ \E r \in 1..NRows : new_df[r].avg_map = F(65) /\ new_df[r].current_hypotensive = 1
    /\ \E r \in 1..NRows : IsNaN(new_df[r].avg_map) /\ new_df[r].current_hypotensive = 0

\* the spacing of the windows, in milliseconds, from the start timestamps
\* of the first two rows
SpacingMs == new_df[2].start_window_time - new_df[1].start_window_time

LookbackMs == args.time * 60000

\* row i (0-based) has the lookback column of the last call
HasLookback(i) == lb_column(args.time) \in DOMAIN new_df[i + 1]

Lookback(i) == new_df[i + 1][lb_column(args.time)]

C6_RaisesIffLookbackShorterThanSpacing ==
    (pc \in {"lookback", "failed"} /\ NRows >= 2) =>
       /\ raised # "none" <=> LookbackMs < SpacingMs
       /\ raised # "none" <=> pc = "failed"
       /\ \A i \in 0..(NRows - 1) : HasLookback(i) <=> raised = "none"

\* C6 witness: a call with a lookback of 1 minute on windows 90 seconds
\* apart has raised
C6_Witness ==
    /\ pc = "failed"
    /\ raised = "ValueError"
    /\ NRows >= 2
    /\ args.time = 1
    /\ SpacingMs = 90000

\* C8: clean_bp_summary sets include_in_model to 1 for a row exactly when
\* avg_sys >= 30 and avg_dias >= 10 and hypotensive_in_15 is not missing,
\* and to 0 otherwise (a row with missing avg_sys or avg_dias gets 0); it
\* changes no other column and no row order.
C8_CleanFlagsUsableRowsOnly ==
    [][pc' = "clean" =>
         /\ Len(new_df') = Len(new_df)
         /\ \A r \in 1..Len(new_df) :
               LET old == new_df[r]
                   new == new_df'[r]
                   usable == /\ old.avg_sys.den > 0
                             /\ old.avg_sys.num >= 30 * old.avg_sys.den
                             /\ old.avg_dias.den > 0
                             /\ old.avg_dias.num >= 10 * old.avg_dias.den
                             /\ old.hypotensive_in_15 \in {F(0), F(1)}
               IN  /\ DOMAIN new = DOMAIN old \cup {"include_in_model"}
                   /\ \A c \in DOMAIN old : new[c] = old[c]
                   /\ new.include_in_model = IF usable THEN 1 ELSE 0]_vars

\* C8 witness: a cleaned table with a row exactly at both floors and with
\* an outcome (included), a row with avg_sys just below 30 and an outcome
\* (excluded), a plausible row without outcome (excluded) and a lookback
\* column
C8_Witness ==
    /\ pc = "clean"
    /\ \E r \in 1..NRows : /\ new_df[r].avg_sys = F(30)
                           /\ new_df[r].avg_dias = F(10)
                           /\ new_df[r].hypotensive_in_15 = F(1)
                           /\ new_df[r].include_in_model = 1
    /\ \E r \in 1..NRows : /\ new_df[r].avg_sys = F(29)
                           /\ new_df[r].avg_dias = F(10)
                           /\ new_df[r].hypotensive_in_15 = F(1)
                           /\ new_df[r].include_in_model = 0
    /\ \E r \in 1..NRows : /\ new_df[r].avg_sys = F(30)
                           /\ new_df[r].avg_dias = F(10)
                           /\ IsNaN(new_df[r].hypotensive_in_15)
                           /\ new_df[r].include_in_model = 0
    /\ HasLookback(0)

====
